---- MODULE Spec2Model ----
(***************************************************************************)
(* Settlement, user statistics and ranking snapshots of the stock-contest  *)
(* backend (Recommend / User / Stock / Ranking models, the recommend       *)
(* controller and the StockUpdateJob).                                     *)
(*                                                                         *)
(* The database rows are the state.  Every request handler is a process    *)
(* that holds the Sequelize instances it loaded; a handler takes one step  *)
(* per database round trip (each `await`), so two handlers interleave      *)
(* exactly where the Node event loop lets them.  Instance.save() and       *)
(* instance.update() write only the attributes whose value differs from    *)
(* the loaded one (Sequelize's changed-field UPDATE).                      *)
(*                                                                         *)
(* Prices are integers; the price grid is chosen so that every return      *)
(* (price - entry) / entry * 100 is an integer number of percent.          *)
(***************************************************************************)
EXTENDS Integers, Sequences, FiniteSets, TLC

\* ---------------------------------------------------------------- bounds
\* rows of the tables and handlers in flight, specification Spec
NUsers == 2
NStocks == 1
NRecs == 1
NProcs == 2
MaxNow == 8
\* specification SpecRank: calculateRankings calls in flight, the calls each slot
\* makes, the day they are made (in week 2 by getCurrentPeriod, in January), and the
\* weekday of January 1 (getDay(): 4 = Thursday)
NCalcs == 2
MaxCalls == 1
RankNow == 9
Jan1Weekday == 4
MaxBadgeUsers == 12
MaxStatCalls == 2
NLevelRecs == 14
MaxStreakRecs == 5
StreakNow == 13
MaxDay == 364

\* JavaScript null / SQL NULL
NULL == 0 - 9999

\* request bodies and quotes, specification Spec
EntryPrices == {50}
PredictChanges == {0 - 5, 5}
\* exitPrice of POST /:id/settle: absent (NULL) or a price
ExitPrices == {NULL, 55}
\* quotes of the price source
Quotes == {45}
\* hold_period "1week": endDate.setDate(endDate.getDate() + 7); the clock counts days
HoldDays == 7

VARIABLES
  now,        \* the wall clock (new Date()), in days
  users,      \* table users: id -> row
  stocks,     \* table stocks: code -> row
  recs,       \* table recommends: id -> row (exists = FALSE: id not yet assigned)
  proc,       \* HTTP request handlers in flight, with the instances they loaded
  out,        \* outcome of the handler or job run that ended last
  job,        \* the StockUpdateJob singleton
  credited,   \* history: per recommend, the user.updateStats calls made for it
  rankings,   \* table rankings: the set of its rows
  calc,       \* Ranking.calculateRankings calls in flight
  schema,     \* which columns the recommends table has beyond the Recommend model
  seen        \* what the getRankingList / getUserRanking query that ran last returned

vars ==
  <<now, users, stocks, recs, proc, out, job, credited, rankings, calc, schema, seen>>

rankvars == <<rankings, calc, schema, seen>>

\* the ids of the rows of each table, and the handler slots
Users == DOMAIN users
Stocks == DOMAIN stocks
Recs == DOMAIN recs
Procs == DOMAIN proc
Calcs == DOMAIN calc

\* ---------------------------------------------------------------- helpers
RECURSIVE SumOver(_, _)
SumOver(S, f) ==
  IF S = {} THEN 0
  ELSE LET x == CHOOSE y \in S : TRUE IN f[x] + SumOver(S \ {x}, f)

Max(a, b) == IF a >= b THEN a ELSE b

Abs(x) == IF x < 0 THEN 0 - x ELSE x

\* JavaScript truthiness of a price read from a request body or a row
Truthy(x) == x # NULL /\ x # 0

\* instance.save(): UPDATE only the attributes that changed since loading
SaveChanged(db, loaded, new) ==
  [f \in DOMAIN db |-> IF new[f] # loaded[f] THEN new[f] ELSE db[f]]

\* ---------------------------------------------------------------- rows
NewUser ==
  [status |-> "active", level |-> 1, total_score |-> 0, current_score |-> 0,
   total_recommends |-> 0, success_recommends |-> 0, failed_recommends |-> 0,
   current_streak |-> 0, max_streak |-> 0]

NewStock ==
  [current_price |-> NULL, recommend_count |-> 0, success_rate |-> 0,
   avg_return |-> 0]

NoRec ==
  [exists |-> FALSE, user_id |-> 0, stock_code |-> 0, predict_change |-> 0,
   entry_price |-> 0, current_price |-> NULL, current_return |-> NULL,
   exit_price |-> NULL, actual_return |-> NULL, created_at |-> 0,
   end_date |-> 0, settled_at |-> NULL, status |-> "active",
   current_streak |-> NULL]

IdleProc ==
  [pc |-> "idle", id |-> 0, exitPrice |-> NULL, userId |-> 0,
   inst |-> NoRec, user |-> NewUser]

IdleJob == [isRunning |-> FALSE, pc |-> "idle", loaded |-> {}]

\* the recommends table as sequelize.sync() creates it from the Recommend model: no
\* current_streak column
SyncedSchema == [recommends_current_streak |-> FALSE]

\* no ranking query has run yet
NotSeen == [type |-> "none", period |-> <<>>, userId |-> 0, rows |-> {}]

\* no ranking rows, no calculateRankings call, no ranking query
NoRanking == rankings = {} /\ calc = <<>> /\ schema = SyncedSchema /\ seen = NotSeen

\* variant: the streak bonuses are evaluated on the streak before the increment
updateStats_oldStreak(u, isSuccess) ==
  LET streak == IF isSuccess THEN u.current_streak + 1 ELSE 0
      scoreGain == 10 + (IF u.current_streak >= 3 THEN 20 ELSE 0)
                      + (IF u.current_streak >= 5 THEN 50 ELSE 0)
      total == IF isSuccess THEN u.total_score + scoreGain ELSE u.total_score
      newLevel == (total \div 1000) + 1
  IN [u EXCEPT
        !.success_recommends = IF isSuccess THEN @ + 1 ELSE @,
        !.failed_recommends = IF isSuccess THEN @ ELSE @ + 1,
        !.current_streak = streak,
        !.max_streak = IF isSuccess THEN Max(@, streak) ELSE @,
        !.total_score = total,
        !.current_score = IF isSuccess THEN @ + scoreGain ELSE Max(0, @ - 5),
        !.total_recommends = @ + 1,
        !.level = IF newLevel > @ THEN newLevel ELSE @]

\* variant: a failure takes the 5 points without the floor at 0
updateStats_unfloored(u, isSuccess) ==
  LET streak == IF isSuccess THEN u.current_streak + 1 ELSE 0
      scoreGain == 10 + (IF streak >= 3 THEN 20 ELSE 0)
                      + (IF streak >= 5 THEN 50 ELSE 0)
      total == IF isSuccess THEN u.total_score + scoreGain ELSE u.total_score
      newLevel == (total \div 1000) + 1
  IN [u EXCEPT
        !.success_recommends = IF isSuccess THEN @ + 1 ELSE @,
        !.failed_recommends = IF isSuccess THEN @ ELSE @ + 1,
        !.current_streak = streak,
        !.max_streak = IF isSuccess THEN Max(@, streak) ELSE @,
        !.total_score = total,
        !.current_score = IF isSuccess THEN @ + scoreGain ELSE @ - 5,
        !.total_recommends = @ + 1,
        !.level = IF newLevel > @ THEN newLevel ELSE @]


\* ---------------------------------------------------------------- User
\* User.prototype.updateStats, up to (not including) save()
updateStats(u, isSuccess) ==
  LET streak == IF isSuccess THEN u.current_streak + 1 ELSE 0
      scoreGain == 10 + (IF streak >= 3 THEN 20 ELSE 0)
                      + (IF streak >= 5 THEN 50 ELSE 0)
      total == IF isSuccess THEN u.total_score + scoreGain ELSE u.total_score
      newLevel == (total \div 1000) + 1
  IN [u EXCEPT
        !.success_recommends = IF isSuccess THEN @ + 1 ELSE @,
        !.failed_recommends = IF isSuccess THEN @ ELSE @ + 1,
        !.current_streak = streak,
        !.max_streak = IF isSuccess THEN Max(@, streak) ELSE @,
        !.total_score = total,
        !.current_score = IF isSuccess THEN @ + scoreGain ELSE Max(0, @ - 5),
        !.total_recommends = @ + 1,
        !.level = IF newLevel > @ THEN newLevel ELSE @]

\* ---------------------------------------------------------------- Recommend
\* ((price - entry_price) / entry_price) * 100
ReturnPct(price, entry) == ((price - entry) * 100) \div entry

\* settle(): exitPrice || this.current_price
finalPriceOf(exitPrice, current_price) ==
  IF Truthy(exitPrice) THEN exitPrice ELSE current_price

\* variant: 0 counts as up
Direction_zeroUp(x) == IF x >= 0 THEN "up" ELSE "down"

\* settle(): predictDirection / actualDirection
Direction(x) == IF x > 0 THEN "up" ELSE "down"

\* variant: a recommend whose price did not move is left undecided
settleStatus_flat(predict_change, actual_return) ==
  IF actual_return = 0 THEN "active"
  ELSE IF Direction(predict_change) = Direction(actual_return)
            /\ 100 - Abs(actual_return - predict_change) >= 50
  THEN "success"
  ELSE "failed"

\* variant: a direction-correct recommend needs an accuracy score of at least 80
settleStatus_strict(predict_change, actual_return) ==
  IF Direction(predict_change) = Direction(actual_return)
       /\ 100 - Abs(actual_return - predict_change) >= 80
  THEN "success"
  ELSE "failed"

\* settle(): the status decided from predict_change and actual_return
settleStatus(predict_change, actual_return) ==
  IF Direction(predict_change) = Direction(actual_return)
  THEN LET accuracyScore == 100 - Abs(actual_return - predict_change)
       IN IF accuracyScore >= 80 THEN "success"
          ELSE IF accuracyScore >= 50 THEN "success"
          ELSE "failed"
  ELSE "failed"

\* variant: settle() does not stamp settled_at
settled_unstamped(inst, finalPrice, t) ==
  LET ret == ReturnPct(finalPrice, inst.entry_price)
  IN [inst EXCEPT !.exit_price = finalPrice,
                  !.actual_return = ret,
                  !.status = settleStatus(inst.predict_change, ret)]

\* settle(): the instance after the assignments of lines 243-266
settled(inst, finalPrice, t) ==
  LET ret == ReturnPct(finalPrice, inst.entry_price)
  IN [inst EXCEPT !.exit_price = finalPrice,
                  !.actual_return = ret,
                  !.settled_at = t,
                  !.status = settleStatus(inst.predict_change, ret)]

\* what settle() still reads of the instance once it is saved: user_id, stock_code
\* and status (the other attributes are dropped from the handler's state)
kept(inst) ==
  [NoRec EXCEPT !.exists = TRUE, !.user_id = inst.user_id,
                !.stock_code = inst.stock_code, !.status = inst.status]

\* ---------------------------------------------------------------- Stock
RecsOfStock(s) == {r \in Recs : recs[r].exists /\ recs[r].stock_code = s}

\* the aggregate query of Stock.prototype.updateStats and the assignments after it
stockStats(stk, s) ==
  LET all == RecsOfStock(s)
      succ == {r \in all : recs[r].status = "success"}
      total == Cardinality(all)
      sumRet == SumOver(succ, [r \in Recs |-> recs[r].actual_return])
  IN [stk EXCEPT
        !.recommend_count = total,
        !.success_rate = IF total > 0 THEN (Cardinality(succ) * 100) \div total ELSE 0,
        !.avg_return = IF succ = {} THEN 0 ELSE sumRet \div Cardinality(succ)]

\* ---------------------------------------------------------------- Init
Init ==
  /\ now = 0
  /\ users = [u \in 1..NUsers |-> NewUser]
  /\ stocks = [s \in 1..NStocks |-> NewStock]
  /\ recs = [r \in 1..NRecs |-> NoRec]
  /\ proc = [p \in 1..NProcs |-> IdleProc]
  /\ out = "none"
  /\ job = IdleJob
  /\ credited = [r \in 1..NRecs |-> 0]
  /\ NoRanking

\* the wall clock
Tick ==
  /\ now < MaxNow
  /\ now' = now + 1
  /\ UNCHANGED <<users, stocks, recs, proc, out, job, credited>>
  /\ UNCHANGED rankvars

\* ---------------------------------------------------------------- createRecommend
createRecommend(userId, stockCode, predictChange, currentPrice) ==
  /\ \E r \in Recs :
       /\ ~recs[r].exists
       /\ \A q \in Recs : q < r => recs[q].exists
       /\ ~\E q \in Recs : /\ recs[q].exists
                           /\ recs[q].user_id = userId
                           /\ recs[q].stock_code = stockCode
                           /\ recs[q].status = "active"
       /\ recs' = [recs EXCEPT ![r] =
            [NoRec EXCEPT !.exists = TRUE,
                          !.user_id = userId,
                          !.stock_code = stockCode,
                          !.predict_change = predictChange,
                          !.entry_price = currentPrice,
                          !.current_price = currentPrice,
                          !.current_return = 0,
                          !.created_at = now,
                          !.end_date = now + HoldDays,
                          !.status = "active"]]
  /\ stocks' = [stocks EXCEPT ![stockCode].recommend_count = @ + 1]
  /\ UNCHANGED <<now, users, proc, out, job, credited>>
  /\ UNCHANGED rankvars

\* ---------------------------------------------------------------- settleRecommend
\* POST /:id/settle: Recommend.findByPk(id)
settleFindByPk(p, id, exitPrice) ==
  /\ proc[p].pc = "idle"
  /\ IF recs[id].exists
     THEN /\ proc' = [proc EXCEPT ![p] = [IdleProc EXCEPT !.pc = "settle_check",
                                                        !.id = id,
                                                        !.exitPrice = exitPrice,
                                                        !.inst = recs[id]]]
          /\ UNCHANGED out
     ELSE /\ out' = "not_found"
          /\ UNCHANGED proc
  /\ UNCHANGED <<now, users, stocks, recs, job, credited>>
  /\ UNCHANGED rankvars

\* the controller's status check, then Recommend.prototype.settle up to save()
settleSave(p) ==
  /\ proc[p].pc = "settle_check"
  /\ LET inst == proc[p].inst
         finalPrice == finalPriceOf(proc[p].exitPrice, inst.current_price)
         new == settled(inst, finalPrice, now)
     IN IF inst.status # "active"
        THEN /\ out' = "not_active"
             /\ proc' = [proc EXCEPT ![p] = IdleProc]
             /\ UNCHANGED recs
        ELSE IF ~Truthy(finalPrice)
        THEN /\ out' = "missing_price"
             /\ proc' = [proc EXCEPT ![p] = IdleProc]
             /\ UNCHANGED recs
        ELSE /\ recs' = [recs EXCEPT ![proc[p].id] = SaveChanged(@, inst, new)]
             /\ proc' = [proc EXCEPT ![p].pc = "settle_user",
                                     ![p].exitPrice = NULL,
                                     ![p].inst = kept(new)]
             /\ UNCHANGED out
  /\ UNCHANGED <<now, users, stocks, job, credited>>
  /\ UNCHANGED rankvars

\* settle(): User.findByPk(this.user_id)
settleFindUser(p) ==
  /\ proc[p].pc = "settle_user"
  /\ proc' = [proc EXCEPT ![p].pc = "settle_stats",
                          ![p].user = users[proc[p].inst.user_id]]
  /\ UNCHANGED <<now, users, stocks, recs, out, job, credited>>
  /\ UNCHANGED rankvars

\* settle(): user.updateStats(this.status === "success"), its save() included
settleUpdateStats(p) ==
  /\ proc[p].pc = "settle_stats"
  /\ LET uid == proc[p].inst.user_id
         loaded == proc[p].user
         new == updateStats(loaded, proc[p].inst.status = "success")
     IN users' = [users EXCEPT ![uid] = SaveChanged(@, loaded, new)]
  /\ credited' = [credited EXCEPT ![proc[p].id] = @ + 1]
  /\ proc' = [proc EXCEPT ![p].pc = "settle_stock", ![p].user = NewUser]
  /\ UNCHANGED <<now, stocks, recs, out, job>>
  /\ UNCHANGED rankvars

\* settle(): Stock.findByCode(this.stock_code) and stock.updateStats() (the aggregate
\* query and save(), taken as one step); settle returns and the controller answers 200
settleStockStats(p) ==
  /\ proc[p].pc = "settle_stock"
  /\ LET code == proc[p].inst.stock_code
         loaded == stocks[code]
     IN stocks' = [stocks EXCEPT ![code] = SaveChanged(@, loaded, stockStats(loaded, code))]
  /\ out' = "ok"
  /\ proc' = [proc EXCEPT ![p] = IdleProc]
  /\ UNCHANGED <<now, users, recs, job, credited>>
  /\ UNCHANGED rankvars

\* ---------------------------------------------------------------- deleteRecommend
\* DELETE /:id: Recommend.findByPk(id)
deleteFindByPk(p, id, userId) ==
  /\ proc[p].pc = "idle"
  /\ IF recs[id].exists
     THEN /\ proc' = [proc EXCEPT ![p] = [IdleProc EXCEPT !.pc = "delete_check",
                                                        !.id = id,
                                                        !.userId = userId,
                                                        !.inst = recs[id]]]
          /\ UNCHANGED out
     ELSE /\ out' = "not_found"
          /\ UNCHANGED proc
  /\ UNCHANGED <<now, users, stocks, recs, job, credited>>
  /\ UNCHANGED rankvars

\* the owner and status checks, then recommend.update({ status: "cancelled" })
deleteUpdate(p) ==
  /\ proc[p].pc = "delete_check"
  /\ LET inst == proc[p].inst
         new == [inst EXCEPT !.status = "cancelled"]
     IN IF inst.user_id # proc[p].userId
        THEN /\ out' = "forbidden"
             /\ UNCHANGED recs
        ELSE IF inst.status # "active"
        THEN /\ out' = "not_active"
             /\ UNCHANGED recs
        ELSE /\ recs' = [recs EXCEPT ![proc[p].id] = SaveChanged(@, inst, new)]
             /\ out' = "ok"
  /\ proc' = [proc EXCEPT ![p] = IdleProc]
  /\ UNCHANGED <<now, users, stocks, job, credited>>
  /\ UNCHANGED rankvars

\* ---------------------------------------------------------------- checkExpiredRecommends
\* POST /check-expired.  recommendController.js never binds `Op`, so building the
\* where clause ([Op.lt]) throws a ReferenceError before any query is issued; the
\* catch block hands it to next(error).
checkExpiredRecommends(p) ==
  /\ proc[p].pc = "idle"
  /\ out' = "reference_error"
  /\ UNCHANGED <<now, users, stocks, recs, proc, job, credited>>
  /\ UNCHANGED rankvars

\* ---------------------------------------------------------------- StockUpdateJob
\* The 15:30 cron job.  stockUpdateJob.js never binds `Op` either: [Op.lte] throws a
\* ReferenceError inside the try block, which the catch block logs.
settleExpiredRecommends ==
  /\ out' = "settle_failed"
  /\ UNCHANGED <<now, users, stocks, recs, proc, job, credited>>
  /\ UNCHANGED rankvars

\* updateAllStockPrices: the isRunning guard; then Stock.findAll, Promise.allSettled
\* of fetchStockPrice and stock.update for every quote obtained (quote[s] = NULL: the
\* fetch of s failed or returned nothing)
updateAllStockPrices(quote) ==
  /\ IF job.isRunning
     THEN /\ out' = "skipped"
          /\ UNCHANGED <<job, stocks>>
     ELSE /\ job' = [IdleJob EXCEPT !.isRunning = TRUE, !.pc = "returns_find"]
          /\ stocks' = [s \in Stocks |->
               IF quote[s] # NULL THEN [stocks[s] EXCEPT !.current_price = quote[s]]
               ELSE stocks[s]]
          /\ UNCHANGED out
  /\ UNCHANGED <<now, users, recs, proc, credited>>
  /\ UNCHANGED rankvars

\* updateRecommendReturns: findAll of the active recommends with their stock
updateRecommendReturnsFind ==
  /\ job.pc = "returns_find"
  /\ job' = [job EXCEPT
       !.pc = "returns_update",
       !.loaded = {[id |-> r, inst |-> recs[r],
                    price |-> stocks[recs[r].stock_code].current_price] :
                   r \in {q \in Recs : recs[q].exists /\ recs[q].status = "active"}}]
  /\ UNCHANGED <<now, users, stocks, recs, proc, out, credited>>
  /\ UNCHANGED rankvars

\* the current return written by updateRecommendReturns (null counts as 0 in the
\* subtraction)
currentReturnOf(price, entry) ==
  ReturnPct(IF price = NULL THEN 0 ELSE price, entry)

\* updateRecommendReturns: recommend.update(...) of every loaded row; then
\* updateAllStockPrices ends and resets isRunning
updateRecommendReturnsSave ==
  /\ job.pc = "returns_update"
  /\ recs' = [r \in Recs |->
       IF \E l \in job.loaded : l.id = r
       THEN LET l == CHOOSE x \in job.loaded : x.id = r
                new == [l.inst EXCEPT
                          !.current_price = l.price,
                          !.current_return = currentReturnOf(l.price, l.inst.entry_price)]
            IN SaveChanged(recs[r], l.inst, new)
       ELSE recs[r]]
  /\ job' = IdleJob
  /\ UNCHANGED <<now, users, stocks, proc, out, credited>>
  /\ UNCHANGED rankvars

\* ---------------------------------------------------------------- specification
Next ==
  \/ \E u \in Users, s \in Stocks, c \in PredictChanges, e \in EntryPrices :
       createRecommend(u, s, c, e)
  \/ \E p \in Procs, id \in Recs, x \in ExitPrices : settleFindByPk(p, id, x)
  \/ \E p \in Procs : settleSave(p)
  \/ \E p \in Procs : settleFindUser(p)
  \/ \E p \in Procs : settleUpdateStats(p)
  \/ \E p \in Procs : settleStockStats(p)
  \/ \E p \in Procs, id \in Recs, u \in Users : deleteFindByPk(p, id, u)
  \/ \E p \in Procs : deleteUpdate(p)
  \/ \E p \in Procs : checkExpiredRecommends(p)
  \/ settleExpiredRecommends
  \/ \E quote \in [Stocks -> Quotes \cup {NULL}] : updateAllStockPrices(quote)
  \/ updateRecommendReturnsFind
  \/ updateRecommendReturnsSave

Spec == Init /\ [][Next]_vars

\* ---------------------------------------------------------------- SpecPair
\* One user with two active recommends (on two stocks), settled by two handlers.
activeRec(userId, stockCode, predictChange, entryPrice, currentPrice) ==
  [NoRec EXCEPT !.exists = TRUE,
                !.user_id = userId,
                !.stock_code = stockCode,
                !.predict_change = predictChange,
                !.entry_price = entryPrice,
                !.current_price = currentPrice,
                !.current_return = currentReturnOf(currentPrice, entryPrice),
                !.end_date = HoldDays]

InitPair ==
  /\ now = 0
  /\ users = [u \in 1..1 |-> NewUser]
  /\ stocks = [s \in 1..2 |-> [NewStock EXCEPT !.recommend_count = 1]]
  /\ \E c \in [1..2 -> PredictChanges] :
       recs = [r \in 1..2 |-> activeRec(1, r, c[r], 50, 50)]
  /\ proc = [p \in 1..2 |-> IdleProc]
  /\ out = "none"
  /\ job = IdleJob
  /\ credited = [r \in 1..2 |-> 0]
  /\ NoRanking

SettleSteps ==
  \/ \E p \in Procs : settleSave(p)
  \/ \E p \in Procs : settleFindUser(p)
  \/ \E p \in Procs : settleUpdateStats(p)
  \/ \E p \in Procs : settleStockStats(p)

NextPair ==
  \/ \E p \in Procs, id \in Recs, x \in ExitPrices : settleFindByPk(p, id, x)
  \/ SettleSteps

SpecPair == InitPair /\ [][NextPair]_vars

\* ---------------------------------------------------------------- SpecSettle
\* One handler settling one active recommend, over a wider grid of predicted changes,
\* entry prices, current prices and exit-price overrides.
SettlePredicts == {0 - 5, 0, 5}
SettleEntries == {50, 100}
SettleCurrents == {NULL, 40, 45, 50, 100}
SettleExits == {NULL, 0, 65, 80, 90, 110}

InitSettle ==
  /\ now = 0
  /\ users = [u \in 1..1 |-> NewUser]
  /\ \E c \in SettlePredicts, e \in SettleEntries, cp \in SettleCurrents :
       /\ recs = [r \in 1..1 |-> activeRec(1, 1, c, e, cp)]
       /\ stocks = [s \in 1..1 |-> [NewStock EXCEPT !.recommend_count = 1,
                                                     !.current_price = cp]]
  /\ proc = [p \in 1..1 |-> IdleProc]
  /\ out = "none"
  /\ job = IdleJob
  /\ credited = [r \in 1..1 |-> 0]
  /\ NoRanking

NextSettle ==
  \/ Tick
  \/ \E p \in Procs, id \in Recs, x \in SettleExits : settleFindByPk(p, id, x)
  \/ SettleSteps

SpecSettle == InitSettle /\ [][NextSettle]_vars

\* ---------------------------------------------------------------- Ranking: periods
\* A period is <<year, n>>: n the week or month number, year counted from the current
\* year (0); "total" has the single period <<0, 0>>.  Days count from January 1 of the
\* current year (day 0); the years have 365 days.
TotalPeriod == <<0, 0>>

\* the period argument left out (period = null)
NoPeriod == <<>>



MonthDays == <<31, 28, 31, 30, 31, 30, 31, 31, 30, 31, 30, 31>>

RECURSIVE MonthStart(_)
\* day of the year on which month m starts: new Date(year, m - 1, 1)
MonthStart(m) == IF m = 1 THEN 0 ELSE MonthStart(m - 1) + MonthDays[m - 1]

\* now.getMonth() + 1
MonthOf(day) ==
  CHOOSE m \in 1..12 : MonthStart(m) <= day /\ day < MonthStart(m) + MonthDays[m]

\* Ranking.getCurrentPeriod at day `day`, when January 1 falls on weekday jan1
\* (getDay(): 0 = Sunday): week = ceil((days + startOfYear.getDay() + 1) / 7)
getCurrentPeriod(type, day, jan1) ==
  IF type = "weekly" THEN <<0, (day + jan1 + 1 + 6) \div 7>>
  ELSE IF type = "monthly" THEN <<0, MonthOf(day)>>
  ELSE TotalPeriod

\* Ranking.getPeriodRange: first and last day of the period, NULL for "total"
getPeriodRange(type, period) ==
  IF type = "weekly"
  THEN LET startOfWeek == period[1] * 365 + (period[2] - 1) * 7
       IN [start |-> startOfWeek, end |-> startOfWeek + 6]
  ELSE IF type = "monthly"
  THEN LET startOfMonth == period[1] * 365 + MonthStart(period[2])
       IN [start |-> startOfMonth, end |-> startOfMonth + MonthDays[period[2]] - 1]
  ELSE [start |-> NULL, end |-> NULL]

\* Ranking.getPreviousPeriod
getPreviousPeriod(type, currentPeriod) ==
  IF type = "total" THEN TotalPeriod
  ELSE IF type = "weekly"
  THEN IF currentPeriod[2] > 1 THEN <<currentPeriod[1], currentPeriod[2] - 1>>
       ELSE <<currentPeriod[1] - 1, 52>>
  ELSE IF currentPeriod[2] > 1 THEN <<currentPeriod[1], currentPeriod[2] - 1>>
       ELSE <<currentPeriod[1] - 1, 12>>

\* ---------------------------------------------------------------- Ranking: per user
\* a rational n / d, d > 0 (JavaScript numbers that are quotients of small integers)
Rat(n, d) == [n |-> n, d |-> d]

RatLess(a, b) == a.n * b.d < b.n * a.d

RatEq(a, b) == a.n * b.d = b.n * a.d

\* a DECIMAL(p, 4) column: the value rounded to 4 decimals (half away from zero),
\* held as the integer number of 1/10000
Decimal4(q) ==
  IF q.n >= 0 THEN (2 * q.n * 10000 + q.d) \div (2 * q.d)
  ELSE 0 - ((2 * (0 - q.n) * 10000 + q.d) \div (2 * q.d))

\* recommendWhere: the user's recommends, created inside [start, end] when the type
\* has a range
recommendWhere(userId, range) ==
  {r \in Recs : /\ recs[r].exists
                /\ recs[r].user_id = userId
                /\ range.start # NULL =>
                     (range.start <= recs[r].created_at /\ recs[r].created_at <= range.end)}

RECURSIVE MaxOf(_)
MaxOf(S) ==
  LET x == CHOOSE y \in S : TRUE
  IN IF S = {x} THEN x ELSE Max(x, MaxOf(S \ {x}))

\* the CASE expression summed into period_score, for one row
periodScoreOf(row) ==
  IF row.status = "success"
  THEN 10 + (IF row.current_streak # NULL /\ row.current_streak >= 3 THEN 20 ELSE 0)
          + (IF row.current_streak # NULL /\ row.current_streak >= 5 THEN 50 ELSE 0)
  ELSE 0 - 5

\* the aggregate query over recommendWhere and the parseInt / parseFloat || 0 lines
userStats(userId, range) ==
  LET rows == recommendWhere(userId, range)
      withReturn == {r \in rows : recs[r].actual_return # NULL}
      totalRecommends == Cardinality(rows)
      successRecommends == Cardinality({r \in rows : recs[r].status = "success"})
  IN [total_recommends |-> totalRecommends,
      success_recommends |-> successRecommends,
      win_rate |-> IF totalRecommends > 0 THEN Rat(successRecommends, totalRecommends)
                   ELSE Rat(0, 1),
      avg_return |-> IF withReturn = {} THEN Rat(0, 1)
                     ELSE Rat(SumOver(withReturn, [r \in withReturn |-> recs[r].actual_return]),
                              Cardinality(withReturn)),
      max_return |-> IF withReturn = {} THEN 0
                     ELSE MaxOf({recs[r].actual_return : r \in withReturn}),
      period_score |-> SumOver(rows, [r \in rows |-> periodScoreOf(recs[r])])]

\* limit: 20 of the recentRecommends query
RecentLimit == 20

\* the orders in which the recentRecommends query can return the user's settled
\* recommends: settled_at descending, rows with equal settled_at in any order, cut
\* to the first RecentLimit
recentRecommends(userId, range) ==
  LET rows == {r \in recommendWhere(userId, range) : recs[r].status \in {"success", "failed"}}
      n == Cardinality(rows)
      orders == {q \in [1..n -> rows] :
                   /\ \A i, j \in 1..n : i # j => q[i] # q[j]
                   /\ \A i \in 1..n, j \in 1..n :
                        i < j => recs[q[i]].settled_at >= recs[q[j]].settled_at}
  IN {SubSeq(q, 1, IF n < RecentLimit THEN n ELSE RecentLimit) : q \in orders}

RECURSIVE streakWalk(_, _, _)
\* the loop over recentRecommends (statuses, newest first) from index i on; w holds
\* currentStreak, maxStreak and tempStreak
streakWalk(statuses, i, w) ==
  IF i > Len(statuses)
  THEN [w EXCEPT !.maxStreak = Max(w.maxStreak, w.tempStreak)]
  ELSE IF statuses[i] = "success"
  THEN streakWalk(statuses, i + 1,
                  [w EXCEPT !.tempStreak = @ + 1,
                            !.currentStreak = IF @ = 0 THEN w.tempStreak + 1 ELSE @])
  ELSE LET m == Max(w.maxStreak, w.tempStreak)
       IN IF w.currentStreak > 0
          THEN [w EXCEPT !.maxStreak = m, !.tempStreak = 0]
          ELSE streakWalk(statuses, i + 1, [w EXCEPT !.maxStreak = m, !.tempStreak = 0])

\* the entry pushed onto `rankings` for one user
rankingEntry(user, type, period, stats, recent) ==
  LET w == streakWalk([i \in 1..Len(recent) |-> recs[recent[i]].status], 1,
                      [currentStreak |-> 0, maxStreak |-> 0, tempStreak |-> 0])
  IN [user_id |-> user.id,
      ranking_type |-> type,
      period |-> period,
      score |-> IF type = "total" THEN user.total_score ELSE stats.period_score,
      period_score |-> stats.period_score,
      total_recommends |-> stats.total_recommends,
      success_recommends |-> stats.success_recommends,
      win_rate |-> stats.win_rate,
      avg_return |-> stats.avg_return,
      max_return |-> stats.max_return,
      current_streak |-> w.currentStreak,
      max_streak |-> w.maxStreak,
      rank |-> NULL,
      previous_rank |-> NULL,
      badge |-> "none"]

\* ---------------------------------------------------------------- Ranking: order
\* a comparator on the score alone
sortsBefore_scoreOnly(a, b) == b.score < a.score

\* the comparator of rankings.sort returns a negative number: a sorts before b
sortsBefore(a, b) ==
  IF b.score # a.score THEN b.score < a.score
  ELSE IF ~RatEq(b.win_rate, a.win_rate) THEN RatLess(b.win_rate, a.win_rate)
  ELSE RatLess(b.avg_return, a.avg_return)

RECURSIVE insertSorted(_, _)
\* x placed before the first element it sorts before (Array.prototype.sort is stable)
insertSorted(sorted, x) ==
  IF sorted = <<>> THEN <<x>>
  ELSE IF sortsBefore(x, Head(sorted)) THEN <<x>> \o sorted
  ELSE <<Head(sorted)>> \o insertSorted(Tail(sorted), x)

RECURSIVE sortRankings(_)
sortRankings(list) ==
  IF list = <<>> THEN <<>>
  ELSE insertSorted(sortRankings(SubSeq(list, 1, Len(list) - 1)), list[Len(list)])

\* badges: "weekly_champion" / "monthly_champion" / "total_champion" stand for
\* 周冠军 / 月冠军 / 总冠军, "runner_up" for 亚军, "third" for 季军, "top_ten" for 前十,
\* "none" for no badge
BadgeLimit == 10

\* the badge of the entry at index i (from 0) of the sorted list
\* variant: the last branch stops one position earlier
badgeOf_nine(i, type) ==
  IF i = 0 THEN (IF type = "weekly" THEN "weekly_champion"
                 ELSE IF type = "monthly" THEN "monthly_champion"
                 ELSE "total_champion")
  ELSE IF i = 1 THEN "runner_up"
  ELSE IF i = 2 THEN "third"
  ELSE IF i < BadgeLimit - 1 THEN "top_ten"
  ELSE "none"

\* the if / else if chain of the rank loop, i counting from 0
badgeOf(i, type) ==
  IF i = 0 THEN (IF type = "weekly" THEN "weekly_champion"
                 ELSE IF type = "monthly" THEN "monthly_champion"
                 ELSE "total_champion")
  ELSE IF i = 1 THEN "runner_up"
  ELSE IF i = 2 THEN "third"
  ELSE IF i < BadgeLimit THEN "top_ten"
  ELSE "none"

\* variant: entries that compare equal share a rank
rankOf_shared(list, i) ==
  IF i > 1 /\ ~sortsBefore(list[i - 1], list[i]) THEN i - 1 ELSE i

\* the rank of the entry at position i (from 1) of the sorted list: rankings[i].rank = i + 1
\* for the index counted from 0
rankOf(list, i) == i

\* previousRankMap[user_id] || null over the rows read for the previous period
previousRankOf(previousRankings, userId) ==
  LET rows == {r \in previousRankings : r.user_id = userId}
  IN IF rows = {} THEN NULL
     ELSE LET r == CHOOSE x \in rows : TRUE
          IN IF r.rank = 0 THEN NULL ELSE r.rank

\* the loop that assigns rank, previous_rank and badge
assignRanks(list, previousRankings, type) ==
  [i \in 1..Len(list) |->
     [list[i] EXCEPT !.rank = rankOf(list, i),
                     !.previous_rank = previousRankOf(previousRankings, list[i].user_id),
                     !.badge = badgeOf(i - 1, type)]]

\* a row of the rankings table for an entry: the DECIMAL columns hold 4 decimals
rankingRow(e) ==
  [e EXCEPT !.win_rate = Decimal4(e.win_rate),
            !.avg_return = Decimal4(e.avg_return)]

\* the rows of one (ranking_type, period)
snapshot(table, type, period) ==
  {r \in table : r.ranking_type = type /\ r.period = period}

\* ---------------------------------------------------------------- Ranking: the call
NoStats ==
  [total_recommends |-> 0, success_recommends |-> 0, win_rate |-> Rat(0, 1),
   avg_return |-> Rat(0, 1), max_return |-> 0, period_score |-> 0]

IdleCalc ==
  [pc |-> "idle", type |-> "total", period |-> TotalPeriod, users |-> <<>>, i |-> 1,
   stats |-> NoStats, rankings |-> <<>>, calls |-> 0]

\* the slot of a call that has returned or thrown (calls counts the calls it has made)
returned(k) == [IdleCalc EXCEPT !.calls = k.calls]

\* calculateRankings(type, period): period || getCurrentPeriod(type), getPeriodRange
\* and User.findAll({status: "active"}), which returns the users in any order
calculateRankingsFindUsers(c, type, period) ==
  /\ calc[c].pc = "idle"
  /\ calc[c].calls < MaxCalls
  /\ LET active == {u \in Users : users[u].status = "active"}
         n == Cardinality(active)
     IN \E order \in {q \in [1..n -> active] : \A i, j \in 1..n : i # j => q[i] # q[j]} :
          calc' = [calc EXCEPT ![c] =
                     [IdleCalc EXCEPT
                        !.pc = IF n = 0 THEN "previous" ELSE "stats",
                        !.calls = calc[c].calls + 1,
                        !.type = type,
                        !.period = IF period # NoPeriod THEN period
                                   ELSE getCurrentPeriod(type, now, Jan1Weekday),
                        !.users = [i \in 1..n |->
                                     [id |-> order[i],
                                      total_score |-> users[order[i]].total_score]]]]
  /\ UNCHANGED <<now, users, stocks, recs, proc, out, job, credited, rankings, schema, seen>>

\* the statistics query for users[i]; it names the column current_streak, which the
\* recommends table has only when the schema says so: without it the query is
\* rejected and calculateRankings throws
calculateRankingsStats(c) ==
  /\ calc[c].pc = "stats"
  /\ IF schema.recommends_current_streak
     THEN /\ calc' = [calc EXCEPT
                        ![c].pc = "recent",
                        ![c].stats = userStats(calc[c].users[calc[c].i].id,
                                               getPeriodRange(calc[c].type, calc[c].period))]
          /\ UNCHANGED out
     ELSE /\ calc' = [calc EXCEPT ![c] = returned(calc[c])]
          /\ out' = "unknown_column"
  /\ UNCHANGED <<now, users, stocks, recs, proc, job, credited, rankings, schema, seen>>

\* the recentRecommends query for users[i], the streak loop and rankings.push; after
\* the last user, rankings.sort
calculateRankingsRecent(c) ==
  /\ calc[c].pc = "recent"
  /\ LET k == calc[c]
         range == getPeriodRange(k.type, k.period)
     IN \E recent \in recentRecommends(k.users[k.i].id, range) :
          LET list == Append(k.rankings,
                             rankingEntry(k.users[k.i], k.type, k.period, k.stats, recent))
          IN calc' = [calc EXCEPT
                        ![c].stats = NoStats,
                        ![c].i = k.i + 1,
                        ![c].pc = IF k.i = Len(k.users) THEN "previous" ELSE "stats",
                        ![c].rankings = IF k.i = Len(k.users) THEN sortRankings(list)
                                        ELSE list]
  /\ UNCHANGED <<now, users, stocks, recs, proc, out, job, credited, rankings, schema, seen>>

\* getPreviousPeriod, the previousRankings query and the rank / badge loop
calculateRankingsPrevious(c) ==
  /\ calc[c].pc = "previous"
  /\ LET k == calc[c]
         previousRankings == snapshot(rankings, k.type, getPreviousPeriod(k.type, k.period))
     IN calc' = [calc EXCEPT ![c].pc = "destroy",
                             ![c].rankings = assignRanks(k.rankings, previousRankings, k.type)]
  /\ UNCHANGED <<now, users, stocks, recs, proc, out, job, credited, rankings, schema, seen>>

\* this.destroy({where: {ranking_type, period}}); with no entries the call returns here
calculateRankingsDestroy(c) ==
  /\ calc[c].pc = "destroy"
  /\ rankings' = rankings \ snapshot(rankings, calc[c].type, calc[c].period)
  /\ IF calc[c].rankings = <<>>
     THEN calc' = [calc EXCEPT ![c] = returned(calc[c])] /\ out' = "ok"
     ELSE calc' = [calc EXCEPT ![c].pc = "create"] /\ UNCHANGED out
  /\ UNCHANGED <<now, users, stocks, recs, proc, job, credited, schema, seen>>

\* this.bulkCreate(rankings): one INSERT, rejected as a whole when a row would repeat
\* a (user_id, ranking_type, period) of the unique index
calculateRankingsBulkCreate(c) ==
  /\ calc[c].pc = "create"
  /\ LET k == calc[c]
         rows == {rankingRow(k.rankings[i]) : i \in 1..Len(k.rankings)}
         taken == {r.user_id : r \in snapshot(rankings, k.type, k.period)}
     IN IF \E r \in rows : r.user_id \in taken
        THEN rankings' = rankings /\ out' = "unique_violation"
        ELSE rankings' = rankings \cup rows /\ out' = "ok"
  /\ calc' = [calc EXCEPT ![c] = returned(calc[c])]
  /\ UNCHANGED <<now, users, stocks, recs, proc, job, credited, schema, seen>>

\* ---------------------------------------------------------------- Ranking: readers
\* limit = 50 of getRankingList
ListLimit == 50

\* where.period of the readers: the period given, else "total" or the current period
periodOf(type, period) ==
  IF period # NoPeriod THEN period
  ELSE IF type = "total" THEN TotalPeriod
  ELSE getCurrentPeriod(type, now, Jan1Weekday)

\* the rows getRankingList returns from `table`: the (type, period) rows whose user
\* is active, by rank, at most ListLimit of them (is_active is true in every row,
\* bulkCreate leaves it at its default)
listOf(table, type, period) ==
  LET rows == {r \in snapshot(table, type, period) : users[r.user_id].status = "active"}
  IN {r \in rows : Cardinality({q \in rows : q.rank < r.rank}) < ListLimit}

\* Ranking.getRankingList(type, period): one query
getRankingList(type, period) ==
  /\ seen' = [type |-> type, period |-> periodOf(type, period), userId |-> 0,
              rows |-> listOf(rankings, type, periodOf(type, period))]
  /\ UNCHANGED <<now, users, stocks, recs, proc, out, job, credited, rankings, calc, schema>>

\* Ranking.getUserRanking(userId, type, period): one query, the user's row or none
getUserRanking(userId, type, period) ==
  /\ seen' = [type |-> type, period |-> periodOf(type, period), userId |-> userId,
              rows |-> {r \in snapshot(rankings, type, periodOf(type, period)) :
                          r.user_id = userId}]
  /\ UNCHANGED <<now, users, stocks, recs, proc, out, job, credited, rankings, calc, schema>>

\* the Node process dies while a calculateRankings call is waiting for the database
calculateRankingsCrash(c) ==
  /\ calc[c].pc # "idle"
  /\ calc' = [calc EXCEPT ![c] = returned(calc[c])]
  /\ out' = "crashed"
  /\ UNCHANGED <<now, users, stocks, recs, proc, job, credited, rankings, schema, seen>>

\* ---------------------------------------------------------------- SpecRank
\* calculateRankings over a fixed population: three users, the third without any
\* recommend, and three recommends of users 1 and 2.
RankTypes == {"weekly", "monthly", "total"}
\* the period argument: absent, or the first week / month of the year
RankPeriods == {NoPeriod, <<0, 1>>}

\* a recommend created on createdAt and, unless exit is NULL, settled at price exit
rankRec(userId, predictChange, exit, createdAt, settledAt, streak) ==
  LET created == [activeRec(userId, 1, predictChange, 50, 50)
                    EXCEPT !.created_at = createdAt,
                           !.end_date = createdAt + HoldDays,
                           !.current_streak = streak]
  IN IF exit = NULL THEN created ELSE settled(created, exit, settledAt)

RECURSIVE creditedUser(_, _, _)
\* the users row after updateStats for the user's settled recommends 1..n of table t
creditedUser(t, userId, n) ==
  IF n = 0 THEN NewUser
  ELSE LET before == creditedUser(t, userId, n - 1)
       IN IF t[n].user_id = userId /\ t[n].status \in {"success", "failed"}
          THEN updateStats(before, t[n].status = "success")
          ELSE before

\* a rankings row left by an earlier calculateRankings call
earlierRow(userId, type, period, rank) ==
  rankingRow([rankingEntry([id |-> userId, total_score |-> 0], type, period, NoStats, <<>>)
                EXCEPT !.rank = rank, !.badge = badgeOf(rank - 1, type)])

\* users, recommends and earlier ranking rows, before any call
RankData ==
  /\ now = RankNow
  /\ \E hasColumn \in BOOLEAN, owner \in 1..2, exit2 \in {NULL, 55},
        status12 \in {"active", "inactive"}, status3 \in {"active", "banned"} :
       LET streak == IF hasColumn THEN 3 ELSE NULL
           t == <<rankRec(1, 5, 55, 8, 9, streak),
                  rankRec(owner, 5, exit2, 8, 9, streak),
                  rankRec(2, 0 - 5, 55, 2, 9, streak)>>
       IN /\ schema = [recommends_current_streak |-> hasColumn]
          /\ recs = t
          /\ users = [u \in 1..3 |->
                        [creditedUser(t, u, 3) EXCEPT
                           !.status = IF u = 3 THEN status3 ELSE status12]]
  /\ stocks = [s \in 1..1 |-> stockStats([NewStock EXCEPT !.current_price = 50], s)]
  /\ rankings \in {{},
                   {earlierRow(2, "weekly", <<0, 1>>, 1), earlierRow(1, "weekly", <<0, 1>>, 2),
                    earlierRow(1, "total", TotalPeriod, 1)}}
  /\ seen = NotSeen
  /\ proc = <<>>
  /\ out = "none"
  /\ job = IdleJob
  /\ credited = [r \in 1..3 |-> 0]

InitRank == RankData /\ calc = [c \in 1..NCalcs |-> IdleCalc]

NextRank ==
  \/ \E c \in Calcs, type \in RankTypes, period \in RankPeriods :
       calculateRankingsFindUsers(c, type, IF type = "total" /\ period # NoPeriod
                                           THEN TotalPeriod ELSE period)
  \/ \E c \in Calcs : calculateRankingsStats(c)
  \/ \E c \in Calcs : calculateRankingsRecent(c)
  \/ \E c \in Calcs : calculateRankingsPrevious(c)
  \/ \E c \in Calcs : calculateRankingsDestroy(c)
  \/ \E c \in Calcs : calculateRankingsBulkCreate(c)

SpecRank == InitRank /\ [][NextRank]_vars

\* ---------------------------------------------------------------- SpecRerun
\* calculateRankings calls over an empty rankings table: every stored snapshot is the
\* result of a call over the same users and recommends
InitRerun == InitRank /\ rankings = {}

SpecRerun == InitRerun /\ [][NextRank]_vars

\* ---------------------------------------------------------------- SpecBadge
\* one calculateRankings call over 0..MaxBadgeUsers active users without recommends,
\* from the point where User.findAll has answered (users in id order)
InitBadge ==
  /\ now = RankNow
  /\ \E n \in 0..MaxBadgeUsers, type \in RankTypes, hasColumn \in BOOLEAN :
       LET period == IF type = "total" THEN TotalPeriod
                     ELSE getCurrentPeriod(type, RankNow, Jan1Weekday)
       IN /\ users = [u \in 1..n |-> NewUser]
          /\ schema = [recommends_current_streak |-> hasColumn]
          /\ rankings \in {{}, {earlierRow(1, type, getPreviousPeriod(type, period), 2)}}
          /\ calc = [c \in 1..1 |->
                       [IdleCalc EXCEPT
                          !.pc = IF n = 0 THEN "previous" ELSE "stats",
                          !.calls = 1,
                          !.type = type,
                          !.period = period,
                          !.users = [i \in 1..n |-> [id |-> i, total_score |-> 0]]]]
  /\ stocks = <<>>
  /\ recs = <<>>
  /\ seen = NotSeen
  /\ proc = <<>>
  /\ out = "none"
  /\ job = IdleJob
  /\ credited = <<>>

NextBadge ==
  \/ \E c \in Calcs : calculateRankingsStats(c)
  \/ \E c \in Calcs : calculateRankingsRecent(c)
  \/ \E c \in Calcs : calculateRankingsPrevious(c)
  \/ \E c \in Calcs : calculateRankingsDestroy(c)
  \/ \E c \in Calcs : calculateRankingsBulkCreate(c)

SpecBadge == InitBadge /\ [][NextBadge]_vars

\* ---------------------------------------------------------------- SpecStats
\* the statistics a user may hold before a settlement
StatStreaks == 0..5
StatTotals == {0, 50, 990, 1995}
StatCurrents == {0, 3, 50}

\* user.updateStats(isSuccess) on a freshly loaded user, save() included
userUpdateStats(u, isSuccess) ==
  /\ users[u].total_recommends < MaxStatCalls
  /\ users' = [users EXCEPT ![u] = updateStats(users[u], isSuccess)]
  /\ UNCHANGED <<now, stocks, recs, proc, out, job, credited>>
  /\ UNCHANGED rankvars

InitStats ==
  /\ now = 0
  /\ \E streak \in StatStreaks, longest \in {0, 5}, total \in StatTotals,
        current \in StatCurrents :
       users = [u \in 1..1 |->
                  [NewUser EXCEPT !.current_streak = streak,
                                  !.max_streak = Max(streak, longest),
                                  !.total_score = total,
                                  !.current_score = current,
                                  !.level = (total \div 1000) + 1]]
  /\ stocks = <<>>
  /\ recs = <<>>
  /\ proc = <<>>
  /\ out = "none"
  /\ job = IdleJob
  /\ credited = <<>>
  /\ NoRanking

NextStats == \E u \in Users, isSuccess \in BOOLEAN : userUpdateStats(u, isSuccess)

SpecStats == InitStats /\ [][NextStats]_vars

\* ---------------------------------------------------------------- SpecLevel
\* settleRecommend requests of two handlers for the recommends of one user who is a
\* few points below level 2; the requests name the recommends in id order, each
\* recommend once
InitLevel ==
  /\ now = 0
  /\ users = [u \in 1..1 |-> [NewUser EXCEPT !.current_streak = 5, !.max_streak = 5,
                                             !.total_score = 990, !.current_score = 990]]
  /\ stocks = [s \in 1..1 |-> [NewStock EXCEPT !.current_price = 55,
                                               !.recommend_count = NLevelRecs]]
  /\ recs = [r \in 1..NLevelRecs |-> activeRec(1, 1, 5, 50, 55)]
  /\ proc = [p \in 1..2 |-> IdleProc]
  /\ out = "none"
  /\ job = IdleJob
  /\ credited = [r \in 1..NLevelRecs |-> 0]
  /\ NoRanking

\* the recommend the next request names
nextRequested(id) ==
  /\ recs[id].status = "active"
  /\ \A p \in Procs : proc[p].pc = "idle" \/ proc[p].id # id
  /\ \A r \in Recs :
       (r < id) => (recs[r].status # "active" \/ \E p \in Procs : proc[p].pc # "idle" /\ proc[p].id = r)

NextLevel ==
  \/ \E p \in Procs, id \in Recs : nextRequested(id) /\ settleFindByPk(p, id, NULL)
  \/ SettleSteps

SpecLevel == InitLevel /\ [][NextLevel]_vars

\* ---------------------------------------------------------------- SpecStreak
\* one calculateRankings call (total, the current month, or the week of days 7..13
\* given as period) for one user whose 0..MaxStreakRecs recommends, created on day 7,
\* are all settled, on consecutive days, each a success or a failure; from the point
\* where User.findAll has answered
InitStreak ==
  /\ now = StreakNow
  /\ \E n \in 0..MaxStreakRecs, type \in RankTypes :
     \E won \in [1..n -> BOOLEAN] :
       LET period == IF type = "total" THEN TotalPeriod
                     ELSE IF type = "weekly" THEN <<0, 2>>
                     ELSE getCurrentPeriod(type, StreakNow, Jan1Weekday)
           t == [r \in 1..n |->
                   rankRec(1, 5, IF won[r] THEN 55 ELSE 45, 7, 7 + r, 0)]
       IN /\ recs = t
          /\ users = [u \in 1..1 |-> creditedUser(t, u, n)]
          /\ credited = [r \in 1..n |-> 1]
          /\ calc = [c \in 1..1 |->
                       [IdleCalc EXCEPT
                          !.pc = "stats",
                          !.calls = 1,
                          !.type = type,
                          !.period = period,
                          !.users = [i \in 1..1 |->
                                       [id |-> 1,
                                        total_score |-> creditedUser(t, 1, n).total_score]]]]
  /\ schema = [recommends_current_streak |-> TRUE]
  /\ rankings = {}
  /\ stocks = [s \in 1..1 |-> [NewStock EXCEPT !.current_price = 50]]
  /\ seen = NotSeen
  /\ proc = <<>>
  /\ out = "none"
  /\ job = IdleJob

SpecStreak == InitStreak /\ [][NextBadge]_vars

\* ---------------------------------------------------------------- SpecCascade
\* variant: the rejected cascade puts the recommend back to what it was before settle
settleCascadeThrows_rollback(p) ==
  /\ proc[p].pc \in {"settle_user", "settle_stats", "settle_stock"}
  /\ recs' = [recs EXCEPT ![proc[p].id] =
                [@ EXCEPT !.status = "active", !.exit_price = NULL,
                          !.actual_return = NULL, !.settled_at = NULL]]
  /\ out' = "error"
  /\ proc' = [proc EXCEPT ![p] = IdleProc]
  /\ UNCHANGED <<now, users, stocks, job, credited>>
  /\ UNCHANGED rankvars

\* settle() after its save(): User.findByPk, user.updateStats, Stock.findByCode or
\* stock.updateStats rejects (a database error).  settle has no try / catch and no
\* transaction: the rejection leaves settle, skips what was still to run, and reaches
\* the controller's catch, which hands it to next(error)
settleCascadeThrows(p) ==
  /\ proc[p].pc \in {"settle_user", "settle_stats", "settle_stock"}
  /\ out' = "error"
  /\ proc' = [proc EXCEPT ![p] = IdleProc]
  /\ UNCHANGED <<now, users, stocks, recs, job, credited>>
  /\ UNCHANGED rankvars

NextCascade ==
  \/ NextSettle
  \/ \E p \in Procs : settleCascadeThrows(p)

SpecCascade == InitSettle /\ [][NextCascade]_vars

\* ---------------------------------------------------------------- SpecExpire
\* Recommend.prototype.checkExpired called on a freshly loaded instance of row id:
\* the guard, then settle() up to its save()
checkExpired(p, id) ==
  /\ proc[p].pc = "idle"
  /\ recs[id].exists
  /\ LET inst == recs[id]
         finalPrice == finalPriceOf(NULL, inst.current_price)
         new == settled(inst, finalPrice, now)
     IN IF ~(inst.status = "active" /\ now > inst.end_date)
        THEN /\ out' = "ok"
             /\ UNCHANGED <<recs, proc>>
        ELSE IF ~Truthy(finalPrice)
        THEN /\ out' = "missing_price"
             /\ UNCHANGED <<recs, proc>>
        ELSE /\ recs' = [recs EXCEPT ![id] = SaveChanged(@, inst, new)]
             /\ proc' = [proc EXCEPT ![p] = [IdleProc EXCEPT !.pc = "expired_user",
                                                            !.id = id,
                                                            !.inst = kept(new)]]
             /\ UNCHANGED out
  /\ UNCHANGED <<now, users, stocks, job, credited>>
  /\ UNCHANGED rankvars

\* checkExpired, inside settle(): User.findByPk(this.user_id)
checkExpiredFindUser(p) ==
  /\ proc[p].pc = "expired_user"
  /\ proc' = [proc EXCEPT ![p].pc = "expired_stats",
                          ![p].user = users[proc[p].inst.user_id]]
  /\ UNCHANGED <<now, users, stocks, recs, out, job, credited>>
  /\ UNCHANGED rankvars

\* checkExpired, inside settle(): user.updateStats(this.status === "success")
checkExpiredUpdateStats(p) ==
  /\ proc[p].pc = "expired_stats"
  /\ LET uid == proc[p].inst.user_id
         loaded == proc[p].user
         new == updateStats(loaded, proc[p].inst.status = "success")
     IN users' = [users EXCEPT ![uid] = SaveChanged(@, loaded, new)]
  /\ credited' = [credited EXCEPT ![proc[p].id] = @ + 1]
  /\ proc' = [proc EXCEPT ![p].pc = "expired_stock", ![p].user = NewUser]
  /\ UNCHANGED <<now, stocks, recs, out, job>>
  /\ UNCHANGED rankvars

\* checkExpired, the end of settle() (stock.updateStats) and what follows it:
\* if (this.status === "active") { this.status = "expired"; save() }
checkExpiredAfterSettle(p) ==
  /\ proc[p].pc = "expired_stock"
  /\ LET code == proc[p].inst.stock_code
         loaded == stocks[code]
         inst == proc[p].inst
     IN /\ stocks' = [stocks EXCEPT ![code] = SaveChanged(@, loaded, stockStats(loaded, code))]
        /\ recs' = IF inst.status = "active"
                   THEN [recs EXCEPT ![proc[p].id] =
                           SaveChanged(@, inst, [inst EXCEPT !.status = "expired"])]
                   ELSE recs
  /\ out' = "ok"
  /\ proc' = [proc EXCEPT ![p] = IdleProc]
  /\ UNCHANGED <<now, users, job, credited>>
  /\ UNCHANGED rankvars

NextExpire ==
  \/ Tick
  \/ \E p \in Procs, id \in Recs : checkExpired(p, id)
  \/ \E p \in Procs : checkExpiredFindUser(p)
  \/ \E p \in Procs : checkExpiredUpdateStats(p)
  \/ \E p \in Procs : checkExpiredAfterSettle(p)

SpecExpire == InitSettle /\ [][NextExpire]_vars

\* ---------------------------------------------------------------- SpecPrices
\* prices fetchStockPrice can return
PriceQuotes == {45, 55, 60}

\* variant: the rejected run returns without resetting isRunning
updateAllStockPricesRejected_stuck(quote, bad) ==
  /\ ~job.isRunning
  /\ bad # {}
  /\ \A s \in bad : quote[s] # NULL
  /\ stocks' = [s \in Stocks |->
       IF quote[s] # NULL /\ s \notin bad
       THEN [stocks[s] EXCEPT !.current_price = quote[s]]
       ELSE stocks[s]]
  /\ job' = [IdleJob EXCEPT !.isRunning = TRUE]
  /\ out' = "update_failed"
  /\ UNCHANGED <<now, users, recs, proc, credited>>
  /\ UNCHANGED rankvars

\* updateAllStockPrices when stock.update rejects for the stocks in `bad` (a database
\* error): every update was already issued by the forEach, so the others commit, but
\* Promise.all(updatePromises) rejects, the catch block logs it, updateRecommendReturns
\* is not called, and finally resets isRunning
updateAllStockPricesRejected(quote, bad) ==
  /\ ~job.isRunning
  /\ bad # {}
  /\ \A s \in bad : quote[s] # NULL
  /\ stocks' = [s \in Stocks |->
       IF quote[s] # NULL /\ s \notin bad
       THEN [stocks[s] EXCEPT !.current_price = quote[s]]
       ELSE stocks[s]]
  /\ job' = IdleJob
  /\ out' = "update_failed"
  /\ UNCHANGED <<now, users, recs, proc, credited>>
  /\ UNCHANGED rankvars

\* two stocks with one active recommend each, the job idle
InitPrices ==
  /\ now = 0
  /\ users = [u \in 1..1 |-> NewUser]
  /\ stocks = [s \in 1..2 |-> [NewStock EXCEPT !.recommend_count = 1,
                                               !.current_price = 50]]
  /\ recs = [r \in 1..2 |-> activeRec(1, r, 5, 50, 50)]
  /\ proc = <<>>
  /\ out = "none"
  /\ job = IdleJob
  /\ credited = [r \in 1..2 |-> 0]
  /\ NoRanking

NextPrices ==
  \/ \E quote \in [Stocks -> PriceQuotes \cup {NULL}] : updateAllStockPrices(quote)
  \/ \E quote \in [Stocks -> PriceQuotes \cup {NULL}], bad \in SUBSET Stocks :
       updateAllStockPricesRejected(quote, bad)
  \/ updateRecommendReturnsFind
  \/ updateRecommendReturnsSave

SpecPrices == InitPrices /\ [][NextPrices]_vars

\* the awaited queries of updateRecommendReturns are answered: a run that has started
\* goes on to its end
SpecPricesFair ==
  /\ SpecPrices
  /\ WF_vars(updateRecommendReturnsFind)
  /\ WF_vars(updateRecommendReturnsSave)

\* ---------------------------------------------------------------- SpecPeriod
\* getRankingList called without a period on any day of the year, on empty tables
InitPeriod ==
  /\ now \in 0..MaxDay
  /\ users = <<>>
  /\ stocks = <<>>
  /\ recs = <<>>
  /\ proc = <<>>
  /\ out = "none"
  /\ job = IdleJob
  /\ credited = <<>>
  /\ NoRanking

NextPeriod == \E type \in RankTypes : getRankingList(type, NoPeriod)

SpecPeriod == InitPeriod /\ [][NextPeriod]_vars

\* ---------------------------------------------------------------- SpecJobFair
\* two stocks with one active recommend each (the second possibly without a current
\* price), the days passing beyond end_date, the price refresh and the 15:30
\* settlement job
JobRecs == 1..2

InitJob ==
  /\ now = 0
  /\ users = [u \in 1..1 |-> NewUser]
  /\ stocks = [s \in 1..2 |-> [NewStock EXCEPT !.recommend_count = 1,
                                               !.current_price = 50]]
  /\ \E cp \in {NULL, 50} :
       recs = [r \in JobRecs |-> activeRec(1, r, 5, 50, IF r = 1 THEN 50 ELSE cp)]
  /\ proc = <<>>
  /\ out = "none"
  /\ job = IdleJob
  /\ credited = [r \in JobRecs |-> 0]
  /\ NoRanking

NextJob ==
  \/ Tick
  \/ settleExpiredRecommends
  \/ \E quote \in [Stocks -> {55, NULL}] : updateAllStockPrices(quote)
  \/ updateRecommendReturnsFind
  \/ updateRecommendReturnsSave

\* cron keeps firing the settlement job, time passes, awaited queries are answered
SpecJobFair ==
  /\ InitJob
  /\ [][NextJob]_vars
  /\ WF_vars(Tick)
  /\ WF_vars(settleExpiredRecommends)
  /\ WF_vars(updateRecommendReturnsFind)
  /\ WF_vars(updateRecommendReturnsSave)

\* ---------------------------------------------------------------- SpecRead
\* One calculateRankings call, which may die on the way, and the two readers.
InitRead == RankData /\ calc = [c \in 1..1 |-> IdleCalc]

NextRead ==
  \/ NextRank
  \/ \E c \in Calcs : calculateRankingsCrash(c)
  \/ \E type \in RankTypes, period \in RankPeriods : getRankingList(type, period)
  \/ \E u \in Users, type \in RankTypes, period \in RankPeriods :
       getUserRanking(u, type, period)

SpecRead == InitRead /\ [][NextRead]_vars

\* ================================================================ claims, Spec
Settled(r) == recs[r].exists /\ recs[r].status \in {"success", "failed"}

AllNull(r) ==
  recs[r].exit_price = NULL /\ recs[r].actual_return = NULL /\ recs[r].settled_at = NULL

NoneNull(r) ==
  recs[r].exit_price # NULL /\ recs[r].actual_return # NULL /\ recs[r].settled_at # NULL

\* handlers still inside settle() for recommend r
Settling(r) ==
  {p \in Procs : proc[p].id = r /\ proc[p].pc \in {"settle_user", "settle_stats", "settle_stock"}}

\* C1 as stated: in every reachable state a recommend is active exactly when its
\* exit_price, actual_return and settled_at are all null.
C1_ActiveIffAllNull ==
  \A r \in Recs : recs[r].exists => (recs[r].status = "active" <=> AllNull(r))

\* C1 as amended: an active recommend has exit_price, actual_return and settled_at all
\* null, a recommend with status success or failed has all three set, and the three
\* are always null together or set together (a cancelled recommend may have either).
C1_ActiveImpliesAllNull ==
  \A r \in Recs : recs[r].exists =>
    /\ recs[r].status = "active" => AllNull(r)
    /\ recs[r].status \in {"success", "failed"} => NoneNull(r)
    /\ AllNull(r) \/ NoneNull(r)

C1_Witness ==
  \E r \in Recs : /\ recs[r].exists
                  /\ recs[r].status = "cancelled"
                  /\ AllNull(r)
                  /\ recs[r].current_price # recs[r].entry_price

\* C2: user.updateStats is applied exactly once per settled recommend: never more than
\* once, and once every handler has left settle() a settled recommend has been
\* credited exactly once.
C2_StatsOncePerSettlement ==
  \A r \in Recs :
    /\ credited[r] <= 1
    /\ (Settled(r) /\ Settling(r) = {}) => credited[r] = 1

\* C4: once a recommend's status has left "active", its exit_price, actual_return and
\* settled_at never change again.
C4_SettledFieldsImmutable ==
  [][\A r \in Recs :
       (recs[r].exists /\ recs[r].status # "active") =>
         /\ recs'[r].exit_price = recs[r].exit_price
         /\ recs'[r].actual_return = recs[r].actual_return
         /\ recs'[r].settled_at = recs[r].settled_at]_vars

\* C7: every user has total_recommends = success_recommends + failed_recommends.
C7_TotalIsSuccessPlusFailed ==
  \A u \in Users :
    users[u].total_recommends = users[u].success_recommends + users[u].failed_recommends

\* C8: settle running on a recommend whose row is no longer active fails with the
\* not-active error and changes no recommend, user or stock row.
C8_SettleRejectsNonActive ==
  [][\A p \in Procs :
       (/\ proc[p].pc = "settle_check"
        /\ proc'[p].pc # "settle_check"
        /\ recs[proc[p].id].status # "active") =>
         (out' = "not_active" /\ recs' = recs /\ users' = users /\ stocks' = stocks)]_vars

\* ================================================================ claims, SpecPair
\* C3: once both recommends of the user have been settled (each credited once) and
\* every handler has returned, the user's total_recommends is 2 and
\* success_recommends + failed_recommends is 2.
C3_NoLostIncrement ==
  ((\A p \in Procs : proc[p].pc = "idle") /\ (\A r \in Recs : credited[r] = 1)) =>
    \A u \in Users :
      /\ users[u].total_recommends = 2
      /\ users[u].success_recommends + users[u].failed_recommends = 2

\* ================================================================ claims, SpecSettle
PredictedUp(r) == recs[r].predict_change > 0
ActualUp(r) == recs[r].actual_return > 0
Miss(r) == Abs(recs[r].actual_return - recs[r].predict_change)

C6_DirectionMismatchIsFailed ==
  \A r \in Recs :
    Settled(r) =>
      /\ recs[r].actual_return * recs[r].entry_price
           = (recs[r].exit_price - recs[r].entry_price) * 100
      /\ (PredictedUp(r) # ActualUp(r)) => recs[r].status = "failed"

C6_Witness ==
  \E r \in Recs : /\ Settled(r)
                  /\ recs[r].predict_change > 0
                  /\ recs[r].actual_return = 0
                  /\ recs[r].status = "failed"

\* C9: when settle runs on an active recommend it uses the override whenever the
\* request carries one, else the loaded current price; with neither it fails with the
\* missing-price error and leaves the recommend and the user unchanged.
C9_OverrideElseCurrent ==
  [][\A p \in Procs :
       (proc[p].pc = "settle_check" /\ proc'[p].pc # "settle_check"
          /\ proc[p].inst.status = "active") =>
         LET price == IF proc[p].exitPrice # NULL THEN proc[p].exitPrice
                      ELSE proc[p].inst.current_price
         IN IF price = NULL
            THEN out' = "missing_price" /\ recs' = recs /\ users' = users
            ELSE recs'[proc[p].id].exit_price = price]_vars

\* ================================================================ claims, SpecRank
ActiveUsers == {u \in Users : users[u].status = "active"}

\* C10: when a calculateRankings call completes, the rows stored for its (ranking
\* type, period) are one row per active user, users without any recommend in the
\* period included, and their ranks are exactly 1..N without duplicates, N being the
\* number of active users.
C10_DenseRanks ==
  [][\A c \in Calcs :
       (calc[c].pc \in {"destroy", "create"} /\ calc'[c].pc = "idle" /\ out' = "ok") =>
         LET rows == snapshot(rankings', calc[c].type, calc[c].period)
             N == Cardinality(ActiveUsers)
         IN /\ Cardinality(rows) = N
            /\ {r.user_id : r \in rows} = ActiveUsers
            /\ {r.rank : r \in rows} = 1..N]_vars

C10_Witness ==
  /\ out = "ok"
  /\ \E r \in rankings :
       /\ r.user_id = 3
       /\ r.total_recommends = 0 /\ r.score = 0 /\ r.win_rate = 0
       /\ r.rank \in 1..3
       /\ Cardinality(snapshot(rankings, r.ranking_type, r.period)) = 3
       /\ \E q \in snapshot(rankings, r.ranking_type, r.period) :
            q.user_id # 3 /\ q.score = r.score /\ q.win_rate = 0 /\ q.avg_return = 0

\* ================================================================ claims, SpecRead
\* C11: what getRankingList returns for a (type, period) only ever changes to a
\* complete snapshot (one row per active user, ranks 1..N): between any two states the
\* list is the old one or a complete new one, never an empty or partial one.
C11_ReadersSeeOldOrNew ==
  [][\A type \in RankTypes, period \in {<<0, 1>>, <<0, 2>>, TotalPeriod} :
       LET old == listOf(rankings, type, period)
           new == listOf(rankings', type, period)
       IN \/ new = old
          \/ /\ {r.user_id : r \in new} = ActiveUsers
             /\ {r.rank : r \in new} = 1..Cardinality(ActiveUsers)]_vars



\* the rows of the snapshot a call stores, when it completes in this step
storedBy(c) ==
  IF calc[c].pc \in {"destroy", "create"} /\ calc'[c].pc = "idle" /\ out' = "ok"
  THEN snapshot(rankings', calc[c].type, calc[c].period)
  ELSE {}

C13_RerunIsIdempotent ==
  [][\A c \in Calcs :
       (calc[c].pc = "destroy" /\ calc'[c].pc # "destroy") =>
         LET k == calc[c]
             old == snapshot(rankings, k.type, k.period)
             new == {rankingRow(k.rankings[i]) : i \in 1..Len(k.rankings)}
         IN /\ old # {} => new = old
            /\ \A i \in 1..Len(k.rankings) :
                 k.rankings[i].previous_rank # NULL =>
                   getPreviousPeriod(k.type, k.period) # k.period]_vars

\* ================================================================ claims, SpecRank
\* C12: two calculateRankings calls for the same (type, period) never execute at the
\* same time: no two calls are both between their first and last statement with the
\* same ranking type and period.
C12_OneCallPerTypePeriod ==
  \A c \in Calcs, d \in Calcs :
    (c # d /\ calc[c].pc # "idle" /\ calc[d].pc # "idle") =>
      ~(calc[c].type = calc[d].type /\ calc[c].period = calc[d].period)

\* ================================================================ claims, SpecBadge
\* C15 as stated: in the rows a completed call stores, the badge follows from the rank
\* alone: rank 1 the champion badge of the type, rank 2 runner-up, rank 3 third,
\* ranks 4 to 9 top-ten, and every rank from 10 on no badge.
C15_BadgeThroughRank9 ==
  [][\A c \in Calcs : \A r \in storedBy(c) :
       r.badge = IF r.rank = 1 THEN (IF r.ranking_type = "weekly" THEN "weekly_champion"
                                     ELSE IF r.ranking_type = "monthly" THEN "monthly_champion"
                                     ELSE "total_champion")
                 ELSE IF r.rank = 2 THEN "runner_up"
                 ELSE IF r.rank = 3 THEN "third"
                 ELSE IF r.rank \in 4..9 THEN "top_ten"
                 ELSE "none"]_vars

\* C15, amended: ranks 4 to 10 get the top-ten badge and every rank from 11 on none.
C15_BadgeThroughRank10 ==
  [][\A c \in Calcs : \A r \in storedBy(c) :
       r.badge = IF r.rank = 1 THEN (IF r.ranking_type = "weekly" THEN "weekly_champion"
                                     ELSE IF r.ranking_type = "monthly" THEN "monthly_champion"
                                     ELSE "total_champion")
                 ELSE IF r.rank = 2 THEN "runner_up"
                 ELSE IF r.rank = 3 THEN "third"
                 ELSE IF r.rank \in 4..10 THEN "top_ten"
                 ELSE "none"]_vars

\* a stored snapshot with a top-ten badge at rank 10 and no badge at rank 11
C15_Witness ==
  /\ out = "ok"
  /\ \E r \in rankings, q \in rankings, p \in rankings :
       /\ r.ranking_type = q.ranking_type /\ r.period = q.period
       /\ p.ranking_type = q.ranking_type /\ p.period = q.period
       /\ p.rank = 1 /\ p.badge = "monthly_champion"
       /\ r.rank = 10 /\ r.badge = "top_ten"
       /\ q.rank = 11 /\ q.badge = "none"

\* ================================================================ claims, SpecStats
\* C16: updateStats(success) adds 1 to success_recommends and to current_streak, sets
\* max_streak to the larger of max_streak and the new streak, and adds scoreGain =
\* 10 + (20 if the new streak >= 3) + (50 if the new streak >= 5) to total_score and
\* to current_score.
C16_SuccessGain ==
  \A u \in Users :
    LET a == users[u]
        b == updateStats(a, TRUE)
        scoreGain == 10 + (IF a.current_streak + 1 >= 3 THEN 20 ELSE 0)
                        + (IF a.current_streak + 1 >= 5 THEN 50 ELSE 0)
    IN /\ b.success_recommends = a.success_recommends + 1
       /\ b.current_streak = a.current_streak + 1
       /\ b.max_streak = Max(a.max_streak, a.current_streak + 1)
       /\ b.total_score = a.total_score + scoreGain
       /\ b.current_score = a.current_score + scoreGain
       /\ b.failed_recommends = a.failed_recommends

\* the user of the example after the success: streak 2, total 50 became streak 3,
\* total 80
C16_Witness ==
  \E u \in Users :
    /\ users[u].success_recommends = 1 /\ users[u].total_recommends = 1
    /\ users[u].current_streak = 3 /\ users[u].max_streak = 3
    /\ users[u].total_score = 80 /\ users[u].current_score = 30

\* C17: updateStats(failure) adds 1 to failed_recommends, sets current_streak to 0 and
\* current_score to max(0, current_score - 5), and leaves total_score and max_streak
\* as they were.
C17_FailurePenalty ==
  \A u \in Users :
    LET a == users[u]
        b == updateStats(a, FALSE)
    IN /\ b.failed_recommends = a.failed_recommends + 1
       /\ b.current_streak = 0
       /\ b.current_score = Max(0, a.current_score - 5)
       /\ b.current_score >= 0
       /\ b.total_score = a.total_score
       /\ b.max_streak = a.max_streak
       /\ b.success_recommends = a.success_recommends

\* a user after a failure that found less than 5 spendable points and a streak of 4
C17_Witness ==
  \E u \in Users :
    /\ users[u].failed_recommends = 1 /\ users[u].total_recommends = 1
    /\ users[u].current_streak = 0 /\ users[u].max_streak = 4
    /\ users[u].current_score = 0 /\ users[u].total_score = 50

\* ================================================================ claims, SpecLevel
\* C18: across any sequence of settlements a user's stored level never decreases, and
\* whenever a settlement has written the user's statistics the stored level is at
\* least floor(total_score / 1000) + 1.
C18_LevelNeverDecreases ==
  [][\A u \in Users :
       /\ users'[u].level >= users[u].level
       /\ users'[u] # users[u] =>
            users'[u].level >= (users'[u].total_score \div 1000) + 1]_vars

\* ================================================================ claims, Spec
\* C19: under any interleaving of deleteRecommend with settle on the same recommend,
\* a recommend whose settlement has credited the author's statistics never has the
\* status "cancelled".
C19_SettledNeverCancelled ==
  \A r \in Recs : credited[r] > 0 => recs[r].status # "cancelled"

\* ================================================================ claims, SpecRank
\* C20: the period score a completed call stores for a user is the sum, over the
\* user's recommends in the window whose status is success or failed, of 10 plus the
\* streak bonus for a success and -5 for a failure; active, cancelled and expired
\* recommends contribute nothing.
C20_PeriodScoreOverSettled ==
  [][\A c \in Calcs : \A r \in storedBy(c) :
       LET rows == {x \in recommendWhere(r.user_id, getPeriodRange(r.ranking_type, r.period)) :
                      recs[x].status \in {"success", "failed"}}
           points == [x \in rows |->
                        IF recs[x].status = "success"
                        THEN 10 + (IF recs[x].current_streak >= 3 THEN 20 ELSE 0)
                                + (IF recs[x].current_streak >= 5 THEN 50 ELSE 0)
                        ELSE 0 - 5]
       IN r.period_score = SumOver(rows, points)]_vars

\* ================================================================ claims, SpecStreak
\* the settled recommends of the user of row r inside the row's period
settledIn(r) ==
  {x \in recommendWhere(r.user_id, getPeriodRange(r.ranking_type, r.period)) :
     recs[x].status \in {"success", "failed"}}

\* C21: the current_streak a completed call stores is the length of the most recent
\* run of successes among the user's settled recommends of the period, newest first:
\* 0 when the newest is a failure, k when the newest k are successes.
C21_CurrentStreakIsNewestRun ==
  [][\A c \in Calcs : \A r \in storedBy(c) :
       r.current_streak =
         Cardinality({x \in settledIn(r) :
                        \A y \in settledIn(r) :
                          recs[y].settled_at >= recs[x].settled_at =>
                            recs[y].status = "success"})]_vars

\* C22: the max_streak a completed call stores is the length of the longest run of
\* consecutive successes anywhere among the user's settled recommends of the period
\* (at most RecentLimit of them), and it is never below current_streak.
C22_MaxStreakIsLongestRun ==
  [][\A c \in Calcs : \A r \in storedBy(c) :
       LET S == settledIn(r)
           run(lo, hi) == {z \in S : recs[lo].settled_at <= recs[z].settled_at
                                     /\ recs[z].settled_at <= recs[hi].settled_at}
           runs == {run(lo, hi) : lo \in S, hi \in S}
           lengths == {Cardinality(q) : q \in {x \in runs : \A z \in x : recs[z].status = "success"}}
       IN /\ r.max_streak = MaxOf(lengths \cup {0})
          /\ r.max_streak >= r.current_streak]_vars

\* ================================================================ claims, SpecCascade
\* C23: when the user-stats cascade or the stock-stats refresh fails after settle has
\* saved the recommend, the recommend keeps its settled status, exit_price,
\* actual_return and settled_at and a later request finds it settled; and settle
\* answers success only after both cascades have completed.
C23_CascadeFailureKeepsSettlement ==
  [][\A p \in Procs :
       (proc[p].pc \in {"settle_user", "settle_stats", "settle_stock"}
          /\ proc'[p].pc = "idle") =>
         LET id == proc[p].id
         IN /\ recs'[id] = recs[id]
            /\ recs'[id].status \in {"success", "failed"}
            /\ recs'[id].exit_price # NULL /\ recs'[id].actual_return # NULL
            /\ recs'[id].settled_at # NULL
            /\ out' = "ok" =>
                 /\ credited'[id] >= 1
                 /\ users'[recs[id].user_id].total_recommends >= 1
                 /\ stocks'[recs[id].stock_code] =
                      stockStats(stocks[recs[id].stock_code], recs[id].stock_code)]_vars

\* a settled recommend whose user cascade failed: the author was not credited
C23_Witness ==
  /\ out = "error"
  /\ \A p \in Procs : proc[p].pc = "idle"
  /\ \E r \in Recs :
       /\ recs[r].status \in {"success", "failed"}
       /\ recs[r].exit_price # NULL /\ recs[r].settled_at # NULL
       /\ credited[r] = 0
       /\ users[recs[r].user_id].total_recommends = 0

\* ================================================================ claims, Spec
\* C24: the price refresh (updateRecommendReturns) changes the current_price and
\* current_return of a recommend only while the recommend is active, and never changes
\* its status, exit_price, actual_return or settled_at nor any user statistics, also
\* when a settlement of the same recommend runs between its steps.
C24_RefreshOnlyWhileActive ==
  [][(job.pc = "returns_update" /\ job'.pc = "idle") =>
       /\ users' = users
       /\ \A r \in Recs :
            /\ recs'[r].status = recs[r].status
            /\ recs'[r].exit_price = recs[r].exit_price
            /\ recs'[r].actual_return = recs[r].actual_return
            /\ recs'[r].settled_at = recs[r].settled_at
            /\ recs'[r] # recs[r] => recs[r].status = "active"]_vars

\* ================================================================ claims, SpecExpire
\* C25: when checkExpired returns without error on a recommend that was active and
\* past its end_date, the recommend is success or failed; the status "expired" is
\* never written.
C25_ExpiredNeverForced ==
  [][/\ \A r \in Recs : recs'[r].status # "expired"
     /\ \A p \in Procs :
          (proc[p].pc = "expired_stock" /\ proc'[p].pc = "idle" /\ out' = "ok") =>
            recs'[proc[p].id].status \in {"success", "failed"}]_vars

\* a recommend checkExpired has settled after its end_date
C25_Witness ==
  /\ out = "ok"
  /\ \A p \in Procs : proc[p].pc = "idle"
  /\ \E r \in Recs :
       /\ recs[r].status \in {"success", "failed"}
       /\ recs[r].settled_at # NULL /\ recs[r].settled_at > recs[r].end_date
       /\ recs[r].actual_return = 0
       /\ credited[r] = 1

\* ================================================================ claims, SpecPrices
\* C26: in updateAllStockPrices the failure of one symbol, its fetch or its database
\* update, does not abort the batch: a run that has committed the price of another
\* symbol, or in which an update has failed, still goes on to refresh the current
\* returns of the active recommends.
C26_FailureDoesNotAbortBatch ==
  [][(~job.isRunning /\ (stocks' # stocks \/ out' # out)) =>
       /\ job'.isRunning
       /\ job'.pc = "returns_find"]_vars

\* ================================================================ claims, SpecPricesFair
\* C29: updateAllStockPrices is guarded by isRunning: the flag is set exactly while a
\* run is between its first and last statement, a call that finds it set changes no
\* stock and no recommend and starts nothing, a run that ends, completed or thrown,
\* leaves the flag false, and a set flag is always reset later.
C29_IsRunningGuard ==
  /\ [](job.isRunning <=> job.pc # "idle")
  /\ [][job.isRunning =>
          /\ stocks' = stocks
          /\ (job'.pc = job.pc => (recs' = recs /\ job' = job))
          /\ (job'.pc # job.pc => job'.pc \in {"returns_update", "idle"})]_vars
  /\ (job.isRunning ~> ~job.isRunning)

\* a call that arrived during a run and was skipped
C29_Witness ==
  /\ out = "skipped"
  /\ job.isRunning
  /\ job.pc = "returns_update"
  /\ \E s \in Stocks : stocks[s].current_price # 50

\* ================================================================ claims, Spec
\* C27: whenever no handler is inside an operation, each user's success_recommends is
\* the number of the user's recommends with status success and failed_recommends the
\* number with status failed; cancelled, expired and active recommends count in
\* neither.
C27_CountersMatchStatuses ==
  (\A p \in Procs : proc[p].pc = "idle") =>
    \A u \in Users :
      /\ users[u].success_recommends =
           Cardinality({r \in Recs : recs[r].exists /\ recs[r].user_id = u
                                     /\ recs[r].status = "success"})
      /\ users[u].failed_recommends =
           Cardinality({r \in Recs : recs[r].exists /\ recs[r].user_id = u
                                     /\ recs[r].status = "failed"})

\* ================================================================ claims, SpecPeriod
\* C28: on every day, for weekly and monthly rankings and for every weekday on which
\* January 1 can fall, the day lies inside the range getPeriodRange returns for the
\* period getCurrentPeriod names on that day; so does the day of every reader call
\* for the period the call resolved.
C28_NowInsideCurrentPeriod ==
  /\ \A type \in {"weekly", "monthly"}, jan1 \in 0..6 :
       LET range == getPeriodRange(type, getCurrentPeriod(type, now, jan1))
       IN range.start <= now /\ now <= range.end
  /\ seen.type \in {"weekly", "monthly"} =>
       LET range == getPeriodRange(seen.type, seen.period)
       IN range.start <= now /\ now <= range.end

\* ================================================================ claims, SpecJobFair
\* C30: while the scheduled settleExpiredRecommends job keeps firing, every recommend
\* that is active, past its end_date and has a current price is eventually settled to
\* success or failed, also when another recommend of the batch has no price.
C30_ExpiredEventuallySettled ==
  \A r \in JobRecs :
    (recs[r].status = "active" /\ now > recs[r].end_date /\ Truthy(recs[r].current_price))
      ~> (recs[r].status \in {"success", "failed"})

====
